---- MODULE Spec2Model ----
(***************************************************************************)
(* URDF-to-kinematic-tree compiler of pinocchio                            *)
(* (src/multibody/parser/urdf.hpp): buildModel / parseTree driving the     *)
(* Model builder (addBody, mergeFixedBody, addFixedBody, getJointId).      *)
(*                                                                         *)
(* The recursion of parseTree is kept as a list of pending calls: the body *)
(* of a call runs entirely before its BOOST_FOREACH over child_links and   *)
(* nothing runs after it, so a call is one step that replaces itself by    *)
(* the calls on its children, in child order.                              *)
(*                                                                         *)
(* Model indices are those of the C++ vectors (0 is the universe); the     *)
(* sequence position of index i is i + 1.                                  *)
(*                                                                         *)
(* Left out: joint limits, the visual flag and the 3x3 rotational inertia; *)
(* no statement below reads them.  In the REVOLUTE case the source names   *)
(* the parent index parent_joint_id, which is declared nowhere; it is read *)
(* as the index computed at line 143, like the other cases.                *)
(*                                                                         *)
(* Second part: the Jacobian functions exposed to Python                   *)
(* (bindings/python/algorithm/expose-jacobian.cpp), over the algorithms    *)
(* computeJointJacobians and getJointJacobian.                             *)
(***************************************************************************)
EXTENDS Integers, Sequences, FiniteSets, TLC

\* Number of links of the URDF documents explored (link 1 is the root).
NLinks == 4

Links == 1..NLinks

RootLink == 1

NoLink == 0

\* ------------------------------------------------------------------------
\* Vectors, rotations, transforms

Idx3 == 1..3

Vec3(a, b, c) == <<a, b, c>>

ZeroVec == Vec3(0, 0, 0)

VecAdd(u, v) == <<u[1] + v[1], u[2] + v[2], u[3] + v[3]>>

VecScale(k, u) == <<k * u[1], k * u[2], k * u[3]>>

\* row i of A times v
RowDot(A, i, v) == A[i][1] * v[1] + A[i][2] * v[2] + A[i][3] * v[3]

MatVec(A, v) == <<RowDot(A, 1, v), RowDot(A, 2, v), RowDot(A, 3, v)>>

\* column j of B
Column(B, j) == <<B[1][j], B[2][j], B[3][j]>>

Transpose(A) == <<Column(A, 1), Column(A, 2), Column(A, 3)>>

\* row i of the product A B
RowMul(A, i, B) == <<RowDot(A, i, Column(B, 1)), RowDot(A, i, Column(B, 2)), RowDot(A, i, Column(B, 3))>>

MatMul(A, B) == <<RowMul(A, 1, B), RowMul(A, 2, B), RowMul(A, 3, B)>>

IdentityMatrix == <<Vec3(1, 0, 0), Vec3(0, 1, 0), Vec3(0, 0, 1)>>

\* Eigen::Quaterniond(w,x,y,z).matrix()
QuaternionMatrix(q) ==
    << Vec3(1 - 2 * (q.y * q.y + q.z * q.z), 2 * (q.x * q.y - q.w * q.z), 2 * (q.x * q.z + q.w * q.y)),
       Vec3(2 * (q.x * q.y + q.w * q.z), 1 - 2 * (q.x * q.x + q.z * q.z), 2 * (q.y * q.z - q.w * q.x)),
       Vec3(2 * (q.x * q.z - q.w * q.y), 2 * (q.y * q.z + q.w * q.x), 1 - 2 * (q.x * q.x + q.y * q.y)) >>

SE3(R, t) == [rotation |-> R, translation |-> t]

SE3Identity == SE3(IdentityMatrix, ZeroVec)

\* SE3::operator* : the rigid-body product
SE3Mul(M1, M2) == SE3(MatMul(M1.rotation, M2.rotation),
                      VecAdd(M1.translation, MatVec(M1.rotation, M2.translation)))

\* convertFromUrdf(const ::urdf::Pose &)
convertFromUrdfPose(M) == SE3(QuaternionMatrix(M.rotation), M.position)

\* ------------------------------------------------------------------------
\* Spatial inertia: mass and first moment (mass * centre of mass)

Inertia(mass, com) == [mass |-> mass, moment |-> VecScale(mass, com)]

\* Inertia::Identity(): the inertia used for a link without inertial block
\* (mass 0 per the specification of the compiler)
InertiaIdentity == Inertia(0, ZeroVec)

\* The inertia of the universe (index 0) of a fresh Model
InertiaZero == Inertia(0, ZeroVec)

\* Y.se3Action(M)
se3Action(M, Y) == [mass   |-> Y.mass,
                    moment |-> VecAdd(MatVec(M.rotation, Y.moment),
                                      VecScale(Y.mass, M.translation))]

InertiaAdd(Y1, Y2) == [mass |-> Y1.mass + Y2.mass, moment |-> VecAdd(Y1.moment, Y2.moment)]

\* convertFromUrdf(const ::urdf::Inertial &)
convertFromUrdfInertial(Y) == Inertia(Y.mass, Y.origin.position)

\* ------------------------------------------------------------------------
\* Axis classification

AXIS_X == "AXIS_X"

AXIS_Y == "AXIS_Y"

AXIS_Z == "AXIS_Z"

AXIS_UNALIGNED == "AXIS_UNALIGNED"

extractCartesianAxis(axis) ==
    IF axis[1] = 1 /\ axis[2] = 0 /\ axis[3] = 0 THEN AXIS_X
    ELSE IF axis[1] = 0 /\ axis[2] = 1 /\ axis[3] = 0 THEN AXIS_Y
    ELSE IF axis[1] = 0 /\ axis[2] = 0 /\ axis[3] = 1 THEN AXIS_Z
    ELSE AXIS_UNALIGNED

\* ------------------------------------------------------------------------
\* The URDF document: links, their parent joints, their inertial blocks

REVOLUTE == "REVOLUTE"

CONTINUOUS == "CONTINUOUS"

PRISMATIC == "PRISMATIC"

FIXED == "FIXED"

\* stands for every ::urdf::Joint type the switch has no case for
\* (FLOATING, PLANAR, UNKNOWN)
FLOATING == "FLOATING"

JointTypes == {REVOLUTE, CONTINUOUS, PRISMATIC, FIXED, FLOATING}

LinkNames == <<"base", "link2", "link3", "link4", "link5", "link6">>

JointNames == <<"", "joint2", "joint3", "joint4", "joint5", "joint6">>

RootJointName == "root_joint"

\* link->name
LinkName(l) == LinkNames[l]

\* axes offered to a joint: a canonical axis and an unaligned one
AxisInputs == {Vec3(1, 0, 0), Vec3(1, 1, 0)}

QuatIdentity == [w |-> 1, x |-> 0, y |-> 0, z |-> 0]

QuatHalfTurnX == [w |-> 0, x |-> 1, y |-> 0, z |-> 0]

QuatHalfTurnZ == [w |-> 0, x |-> 0, y |-> 0, z |-> 1]

\* parent_to_joint_origin_transform of the joint of link l: transforms that
\* differ from link to link and do not commute with one another
OriginInput(l) == [position |-> Vec3(l, 0, 1),
                   rotation |-> IF l % 2 = 0 THEN QuatHalfTurnZ ELSE QuatHalfTurnX]

\* <inertial> of link l, when it has one: a mass that tells the links apart
InertialInput(l) == [mass   |-> 2 ^ (l - 1),
                     origin |-> [position |-> Vec3(0, 0, 1), rotation |-> QuatIdentity]]

\* a link without parent joint
NoJointFields == [hasJoint |-> FALSE, jname |-> "", jtype |-> FIXED, axis |-> Vec3(1, 0, 0)]

\* the names the parent joint of link l may bear: its own or, unless the
\* document is plain, the name the compiler gives the root joint
JointNameInputs(l, plain) ==
    IF plain THEN {JointNames[l]} ELSE {JointNames[l], RootJointName}

\* the axes a REVOLUTE or CONTINUOUS joint may have
RotationAxisInputs(plain) == IF plain THEN {Vec3(1, 0, 0)} ELSE AxisInputs

\* whether the root link may have an inertial block
RootInertialInputs(plain) == IF plain THEN {TRUE} ELSE BOOLEAN

LinkRecord(p, j, i) ==
    [parent |-> p, hasJoint |-> j.hasJoint, jname |-> j.jname, jtype |-> j.jtype,
     axis |-> j.axis, hasInertial |-> i]

JointRecord(n, t, a) == [hasJoint |-> TRUE, jname |-> n, jtype |-> t, axis |-> a]

\* the descriptions link l may have in a document.  An attribute parseTree
\* cannot read before it leaves the link takes one value only: the axis of a
\* joint that is FIXED, unsupported or whose link lacks its inertia, the
\* inertial block of a link without joint.
LinkInputs(l, plain) ==
    IF l = RootLink
    THEN { LinkRecord(NoLink, NoJointFields, i) : i \in RootInertialInputs(plain) }
    ELSE { LinkRecord(p, JointRecord(n, t, a), TRUE) :
             p \in 1..(l - 1), n \in JointNameInputs(l, plain),
             t \in {REVOLUTE, CONTINUOUS}, a \in RotationAxisInputs(plain) }
         \cup
         { LinkRecord(p, JointRecord(n, PRISMATIC, a), TRUE) :
             p \in 1..(l - 1), n \in JointNameInputs(l, plain), a \in AxisInputs }
         \cup
         { LinkRecord(p, JointRecord(n, t, Vec3(1, 0, 0)), TRUE) :
             p \in 1..(l - 1), n \in JointNameInputs(l, plain), t \in {FIXED, FLOATING} }
         \cup
         { LinkRecord(p, JointRecord(n, t, Vec3(1, 0, 0)), FALSE) :
             p \in 1..(l - 1), n \in JointNameInputs(l, plain), t \in JointTypes }
         \cup
         { LinkRecord(p, NoJointFields, FALSE) : p \in 1..(l - 1) }

\* ------------------------------------------------------------------------
\* The Model builder

UniverseName == "universe"

\* Model::Model()
EmptyModel ==
    [names           |-> <<UniverseName>>,
     bodyNames       |-> <<UniverseName>>,
     parents         |-> <<0>>,
     joints          |-> <<UniverseName>>,
     jointPlacements |-> <<SE3Identity>>,
     inertias        |-> <<InertiaZero>>,
     fixedBodies     |-> << >>]

\* model.njoint
njoint(m) == Len(m.names)

JointIndices(m) == 0..(njoint(m) - 1)

\* Model::addBody: the new body gets index njoint
addBody(m, parent, j, placement, Y, jointName, bodyName) ==
    [m EXCEPT !.names           = Append(@, jointName),
              !.bodyNames       = Append(@, bodyName),
              !.parents         = Append(@, parent),
              !.joints          = Append(@, j),
              !.jointPlacements = Append(@, placement),
              !.inertias        = Append(@, Y)]

\* Model::mergeFixedBody: inertias[parent] += placement.act(Y); a parent
\* index past the end leaves the vectors as they are
mergeFixedBody(m, parent, placement, Y) ==
    IF parent \in JointIndices(m)
    THEN [m EXCEPT !.inertias[parent + 1] = InertiaAdd(@, se3Action(placement, Y))]
    ELSE m

\* Model::addFixedBody
addFixedBody(m, parent, placement, bodyName) ==
    [m EXCEPT !.fixedBodies =
        Append(@, [parent |-> parent, placement |-> placement, name |-> bodyName])]

\* Model::existJointName
existJointName(m, name) == \E i \in JointIndices(m) : m.names[i + 1] = name

\* outcome of a lookup that ends the process (failed assertion)
LookupFailed == -1

\* Model::getJointId: the indices the lookup may return.  A name borne by
\* several joints may resolve to any of them; an absent name either stops
\* the process or yields the index one past the last joint.
getJointId(m, name) ==
    IF existJointName(m, name)
    THEN {i \in JointIndices(m) : m.names[i + 1] = name}
    ELSE {LookupFailed, njoint(m)}

\* ------------------------------------------------------------------------
\* The joint Jacobian algorithms (pinocchio/algorithm/jacobian.hpp) on a Model
\* whose joints have one degree of freedom each: column i of a 6 x nv matrix
\* belongs to joint i.  A column is a spatial motion (linear, angular); the
\* joint angles are counted in half turns, the joint strokes in units.

\* ReferenceFrame::LOCAL (LOCAL is a reserved word)
FrameLOCAL == "LOCAL"

FrameWORLD == "WORLD"

ReferenceFrames == {FrameLOCAL, FrameWORLD}

Cross(u, v) == Vec3(u[2] * v[3] - u[3] * v[2],
                    u[3] * v[1] - u[1] * v[3],
                    u[1] * v[2] - u[2] * v[1])

Motion(v, w) == [linear |-> v, angular |-> w]

MotionZero == Motion(ZeroVec, ZeroVec)

\* SE3::act on a motion
se3ActMotion(M, m) ==
    Motion(VecAdd(MatVec(M.rotation, m.linear),
                  Cross(M.translation, MatVec(M.rotation, m.angular))),
           MatVec(M.rotation, m.angular))

\* SE3::actInv on a motion
se3ActInvMotion(M, m) ==
    Motion(MatVec(Transpose(M.rotation),
                  VecAdd(m.linear, VecScale(-1, Cross(M.translation, m.angular)))),
           MatVec(Transpose(M.rotation), m.angular))

\* the motion subspace of a joint model
MotionSubspace(jmodel) ==
    CASE jmodel = "JointModelRX" -> Motion(ZeroVec, Vec3(1, 0, 0))
      [] jmodel = "JointModelRZ" -> Motion(ZeroVec, Vec3(0, 0, 1))
      [] jmodel = "JointModelPX" -> Motion(Vec3(1, 0, 0), ZeroVec)
      [] OTHER -> MotionZero

\* the transform of a joint model at the joint configuration qi
JointTransform(jmodel, qi) ==
    CASE jmodel = "JointModelRX" ->
            SE3(QuaternionMatrix(IF qi % 2 = 1 THEN [w |-> 0, x |-> 1, y |-> 0, z |-> 0]
                                               ELSE [w |-> 1, x |-> 0, y |-> 0, z |-> 0]), ZeroVec)
      [] jmodel = "JointModelRZ" ->
            SE3(QuaternionMatrix(IF qi % 2 = 1 THEN [w |-> 0, x |-> 0, y |-> 0, z |-> 1]
                                               ELSE [w |-> 1, x |-> 0, y |-> 0, z |-> 0]), ZeroVec)
      [] jmodel = "JointModelPX" -> SE3(IdentityMatrix, Vec3(qi, 0, 0))
      [] OTHER -> SE3Identity

\* model.nv
nv(m) == njoint(m) - 1

\* Matrix6x(6, model.nv) after setZero()
ZeroMatrix6x(m) == [i \in 1..nv(m) |-> MotionZero]

\* Data(model): placements at identity, J filled with zeros
NewData(m) == [oMi |-> [i \in 1..njoint(m) |-> SE3Identity], J |-> ZeroMatrix6x(m)]

\* forward kinematics: the placement of joint i in the world at configuration q
RECURSIVE WorldPlacement(_, _, _)
WorldPlacement(m, q, i) ==
    IF i = 0 THEN SE3Identity
    ELSE SE3Mul(SE3Mul(WorldPlacement(m, q, m.parents[i + 1]), m.jointPlacements[i + 1]),
                JointTransform(m.joints[i + 1], q[i]))

\* computeJointJacobians(model, data, q): data.oMi and data.J at q
computeJointJacobians(m, d, q) ==
    [d EXCEPT !.oMi = [i \in 1..njoint(m) |-> WorldPlacement(m, q, i - 1)],
              !.J   = [i \in 1..nv(m) |->
                          se3ActMotion(WorldPlacement(m, q, i), MotionSubspace(m.joints[i + 1]))]]

\* the joints on the path from the universe to jointId, jointId included
RECURSIVE Supports(_, _)
Supports(m, jointId) ==
    IF jointId = 0 THEN {} ELSE {jointId} \cup Supports(m, m.parents[jointId + 1])

\* getJointJacobian(model, data, jointId, rf, J): the columns of the joints
\* that support jointId are written from data.J, the others are left as they are
getJointJacobian(m, d, jointId, rf, Jin) ==
    [i \in 1..nv(m) |->
        IF i \in Supports(m, jointId)
        THEN IF rf = FrameWORLD THEN d.J[i] ELSE se3ActInvMotion(d.oMi[jointId + 1], d.J[i])
        ELSE Jin[i]]

\* ------------------------------------------------------------------------
\* State

VARIABLES
    urdf,        \* the parsed document: link -> its description (never changed)
    validFile,   \* whether ::urdf::parseURDFFile returned a tree
    rootJoint,   \* TRUE for buildModel(filename, root_joint)
    parentLink,  \* link -> link->getParent(), rewritten by setParent
    model,       \* the Model local to buildModel
    todo,        \* pending parseTree calls, next first
    pc,          \* "start", "parsing", "returned", "thrown" or "aborted"
    exception,   \* the std::invalid_argument thrown, when pc = "thrown"
    result,      \* what the caller of buildModel received
    missed,      \* joint names getJointId was asked for and did not find
    builtModel,  \* the Model the Jacobian functions are called on
    data,        \* the Data given to jointJacobian
    dataSeq,     \* the Data given to computeJointJacobians and getJointJacobian
    call,        \* the arguments of the last call of jointJacobian
    jpc,         \* "idle", "compute" or "get": what the two-call sequence is to do next
    J,           \* the matrix returned by jointJacobian
    Jseq         \* the matrix returned by getJointJacobian

\* the state of the compiler
compilerVars == <<urdf, validFile, rootJoint, parentLink, model, todo, pc, exception, result, missed>>

\* the state of the caller of the Jacobian functions
jacobianVars == <<builtModel, data, dataSeq, call, jpc, J, Jseq>>

vars == <<compilerVars, jacobianVars>>

NoCall == [q |-> << >>, jointId |-> 0, rf |-> FrameWORLD, update_kinematics |-> FALSE]

\* no Jacobian function has been called on the Model m
JacobianIdle(m) ==
    /\ builtModel = m
    /\ data = NewData(m)
    /\ dataSeq = NewData(m)
    /\ call = NoCall
    /\ jpc = "idle"
    /\ J = ZeroMatrix6x(m)
    /\ Jseq = ZeroMatrix6x(m)

NoException == [kind |-> "none", link |-> NoLink, message |-> << >>]

NoResult == [returned |-> FALSE, model |-> EmptyModel]

\* link->child_links, in document order
child_links(l) == SelectSeq([k \in 1..NLinks |-> k], LAMBDA k : urdf[k].parent = l)

\* the calls parseTree(child, model, nextPlacementOffset) of the final BOOST_FOREACH
ChildCalls(l, nextPlacementOffset) ==
    [n \in 1..Len(child_links(l)) |->
        [link |-> child_links(l)[n], placementOffset |-> nextPlacementOffset]]

\* joint names of a document are pairwise distinct
DistinctJointNames(u) ==
    \A a, b \in Links : (a # b /\ u[a].hasJoint /\ u[b].hasJoint) => u[a].jname # u[b].jname

\* the links from link k up to the root link in the links d of a document
RECURSIVE AncestorsOrSelf(_, _)
AncestorsOrSelf(d, k) ==
    IF k = RootLink THEN {k} ELSE {k} \cup AncestorsOrSelf(d, d[k].parent)

\* parseTree always throws at a link described by r: the link has no parent
\* joint, or no inertial block while its joint is not FIXED
AlwaysThrows(r) == ~r.hasJoint \/ (~r.hasInertial /\ r.jtype # FIXED)

\* the links d hold one, other than the root link, where parseTree always throws
HoldsThrowingLink(d) == \E k \in 2..Len(d) : AlwaysThrows(d[k])

\* the one description given to link n when it follows a link where parseTree
\* always throws: the traversal never reaches it.  It hangs from the link
\* before it by a REVOLUTE joint, so that the throwing link has links below it.
UnreachedLink(n) == LinkRecord(n - 1, JointRecord(JointNames[n], REVOLUTE, Vec3(1, 0, 0)), TRUE)

\* the place of the last link of the links x: after a link where parseTree
\* always throws the traversal reaches no link, and the link has the one
\* description UnreachedLink(n); otherwise the links are numbered in the order
\* in which the traversal meets them (parent first, then each child with its
\* subtree, children in document order), and the parent of the link is the
\* link before it or one of the ancestors of that link
InTraversalOrder(x) ==
    LET n == Len(x)
        d == SubSeq(x, 1, n - 1)
    IN  IF n = RootLink THEN TRUE
        ELSE IF HoldsThrowingLink(d) THEN x[n] = UnreachedLink(n)
        ELSE x[n].parent \in AncestorsOrSelf(d, n - 1)

\* the documents of n links
RECURSIVE DocumentsUpTo(_, _)
DocumentsUpTo(n, plain) ==
    IF n = 0 THEN {<< >>}
    ELSE {x \in {Append(d, r) : d \in DocumentsUpTo(n - 1, plain),
                                r \in LinkInputs(n, plain)} :
            InTraversalOrder(x)}

\* the documents of NLinks links; the plain ones are those whose joints
\* bear their own names, whose hinges turn about the x axis and whose root
\* link has an inertial block
Documents(plain) == {u \in DocumentsUpTo(NLinks, plain) : DistinctJointNames(u)}

\* what stands for the document when the file holds no valid URDF model
NoDocument == [l \in Links |-> LinkRecord(NoLink, NoJointFields, FALSE)]

\* the state before buildModel is called on a document of the set documents
InitOn(documents) ==
    /\ \/ validFile = TRUE /\ urdf \in documents
       \/ validFile = FALSE /\ urdf = NoDocument
    /\ rootJoint \in BOOLEAN
    /\ parentLink = [l \in Links |-> urdf[l].parent]
    /\ model = EmptyModel
    /\ todo = << >>
    /\ pc = "start"
    /\ exception = NoException
    /\ result = NoResult
    /\ missed = {}
    /\ JacobianIdle(EmptyModel)

Init == InitOn(Documents(FALSE))

InitPlain == InitOn(Documents(TRUE))

\* ------------------------------------------------------------------------
\* buildModel

\* throw std::invalid_argument out of a buildModel that fills a Model of the
\* caller instead of a local one
ThrowLeavingModel(kind, l, message) ==
    /\ pc' = "thrown"
    /\ exception' = [kind |-> kind, link |-> l, message |-> message]
    /\ result' = [returned |-> FALSE, model |-> model]
    /\ UNCHANGED <<jacobianVars, urdf, validFile, rootJoint, parentLink, model, todo, missed>>

\* throw std::invalid_argument: the Model local to buildModel is destroyed
\* with the frame and the caller receives nothing
Throw(kind, l, message) ==
    /\ pc' = "thrown"
    /\ exception' = [kind |-> kind, link |-> l, message |-> message]
    /\ result' = NoResult
    /\ UNCHANGED <<jacobianVars, urdf, validFile, rootJoint, parentLink, model, todo, missed>>

\* a failed assert, or a lookup that ends the process
Abort ==
    /\ pc' = "aborted"
    /\ UNCHANGED <<jacobianVars, urdf, validFile, rootJoint, parentLink, model, todo, exception, result>>

\* buildModel, urdfTree null
BuildModelInvalidFile ==
    /\ pc = "start"
    /\ ~validFile
    /\ Throw("MalformedInput", NoLink, <<"The file ", " does not contain a valid URDF model.">>)

\* buildModel(filename, verbose): parseTree(urdfTree->getRoot(), model, SE3::Identity(), verbose)
BuildModelFixedRoot ==
    /\ pc = "start"
    /\ validFile
    /\ ~rootJoint
    /\ pc' = "parsing"
    /\ todo' = <<[link |-> RootLink, placementOffset |-> SE3Identity]>>
    /\ UNCHANGED <<jacobianVars, urdf, validFile, rootJoint, parentLink, model, exception, result, missed>>

\* the joint model the caller hands to buildModel(filename, root_joint)
RootJointModel == "JointModelFreeFlyer"

\* Y of a link: convertFromUrdf(*link->inertial), or Inertia::Identity()
LinkInertia(l) ==
    IF urdf[l].hasInertial THEN convertFromUrdfInertial(InertialInput(l)) ELSE InertiaIdentity

\* buildModel(filename, root_joint, verbose) and the parseTree overload it calls
BuildModelRootJoint ==
    /\ pc = "start"
    /\ validFile
    /\ rootJoint
    /\ pc' = "parsing"
    /\ model' = addBody(model, 0, RootJointModel, SE3Identity, LinkInertia(RootLink),
                        RootJointName, LinkName(RootLink))
    /\ todo' = ChildCalls(RootLink, SE3Identity)
    /\ UNCHANGED <<jacobianVars, urdf, validFile, rootJoint, parentLink, exception, result, missed>>

\* return model
BuildModelReturn ==
    /\ pc = "parsing"
    /\ todo = << >>
    /\ pc' = "returned"
    /\ result' = [returned |-> TRUE, model |-> model]
    /\ UNCHANGED <<jacobianVars, urdf, validFile, rootJoint, parentLink, model, todo, exception, missed>>

\* ------------------------------------------------------------------------
\* parseTree(link, model, placementOffset, verbose)

\* a call is pending
Calling == pc = "parsing" /\ todo # << >>

\* the link and the placementOffset of the call about to run
link == Head(todo).link

placementOffset == Head(todo).placementOffset

\* the inertia check made for REVOLUTE joints only
InertiaMissingRevoluteOnly(l) == ~urdf[l].hasInertial /\ urdf[l].jtype = REVOLUTE

\* if (!link->inertial && joint->type != ::urdf::Joint::FIXED)
InertiaMissing(l) == ~urdf[l].hasInertial /\ urdf[l].jtype # FIXED

\* the name handed to getJointId for the parent of link l
ParentLookupName(l) ==
    IF ~urdf[parentLink[l]].hasJoint THEN RootJointName ELSE urdf[parentLink[l]].jname

\* Model::Index parent = (link->getParent()->parent_joint==NULL) ? ... : ...
ResolveParent(m, l) ==
    IF ~urdf[parentLink[l]].hasJoint
    THEN IF existJointName(m, RootJointName) THEN getJointId(m, RootJointName) ELSE {0}
    ELSE getJointId(m, urdf[parentLink[l]].jname)

\* the names getJointId did not find, after the lookup for link l
Missed(m, l) ==
    IF (urdf[parentLink[l]].hasJoint \/ existJointName(m, RootJointName))
       /\ ~existJointName(m, ParentLookupName(l))
    THEN missed \cup {ParentLookupName(l)}
    ELSE missed

\* jointPlacement = placementOffset * convertFromUrdf(joint->parent_to_joint_origin_transform)
jointPlacement(l, offset) == SE3Mul(offset, convertFromUrdfPose(OriginInput(l)))

\* the joint model of a REVOLUTE or CONTINUOUS joint
RevoluteModel(axis) ==
    CASE extractCartesianAxis(axis) = AXIS_X -> "JointModelRX"
      [] extractCartesianAxis(axis) = AXIS_Y -> "JointModelRY"
      [] extractCartesianAxis(axis) = AXIS_Z -> "JointModelRZ"
      [] OTHER -> "JointModelRevoluteUnaligned"

\* the joint model of a PRISMATIC joint of aligned axis
PrismaticModel(axis) ==
    CASE extractCartesianAxis(axis) = AXIS_X -> "JointModelPX"
      [] extractCartesianAxis(axis) = AXIS_Y -> "JointModelPY"
      [] OTHER -> "JointModelPZ"

\* the calls still pending once the call on l has run its body
Recurse(l, nextPlacementOffset) == ChildCalls(l, nextPlacementOffset) \o Tail(todo)

\* the root link: no parent joint, no parent link
ParseTreeRootLink ==
    /\ Calling
    /\ ~urdf[link].hasJoint
    /\ parentLink[link] = NoLink
    /\ todo' = Recurse(link, SE3Identity)
    /\ UNCHANGED <<jacobianVars, urdf, validFile, rootJoint, parentLink, model, pc, exception, result, missed>>

\* a link without parent joint taken for a root: its children are parsed
ParseTreeMissingJointAsRoot ==
    /\ Calling
    /\ ~urdf[link].hasJoint
    /\ parentLink[link] # NoLink
    /\ todo' = Recurse(link, SE3Identity)
    /\ UNCHANGED <<jacobianVars, urdf, validFile, rootJoint, parentLink, model, pc, exception, result, missed>>

\* else if (link->getParent() != NULL): joint information missing
ParseTreeMissingJoint ==
    /\ Calling
    /\ ~urdf[link].hasJoint
    /\ parentLink[link] # NoLink
    /\ Throw("MissingJoint", link, <<LinkName(link), " - joint information missing.">>)

\* spatial inertia information missing
ParseTreeMissingInertia ==
    /\ Calling
    /\ urdf[link].hasJoint
    /\ InertiaMissing(link)
    /\ Throw("MissingInertia", link, <<LinkName(link), " - spatial inertia information missing.">>)

\* the call passes the two checks above and reaches the parent lookup
Dispatching(type) ==
    /\ Calling
    /\ urdf[link].hasJoint
    /\ ~InertiaMissing(link)
    /\ urdf[link].jtype = type

\* the parent lookup ends the process
ParseTreeLookupAbort ==
    /\ Calling
    /\ urdf[link].hasJoint
    /\ ~InertiaMissing(link)
    /\ LookupFailed \in ResolveParent(model, link)
    /\ missed' = Missed(model, link)
    /\ Abort

\* a body is added for the link and its children are parsed from identity
AddBodyAndRecurse(parent, j) ==
    /\ model' = addBody(model, parent, j, jointPlacement(link, placementOffset),
                        LinkInertia(link), urdf[link].jname, LinkName(link))
    /\ todo' = Recurse(link, SE3Identity)
    /\ missed' = Missed(model, link)
    /\ UNCHANGED <<jacobianVars, urdf, validFile, rootJoint, parentLink, pc, exception, result>>

\* assert(false) compiled out (NDEBUG): nothing is added, the children are parsed
SkipAndRecurse ==
    /\ todo' = Recurse(link, SE3Identity)
    /\ missed' = Missed(model, link)
    /\ UNCHANGED <<jacobianVars, urdf, validFile, rootJoint, parentLink, model, pc, exception, result>>

\* assert(false): ends the process, or does nothing when compiled with NDEBUG
AssertFalse ==
    \/ missed' = Missed(model, link) /\ Abort
    \/ SkipAndRecurse

\* case ::urdf::Joint::REVOLUTE
ParseTreeRevolute ==
    /\ Dispatching(REVOLUTE)
    /\ \E parent \in ResolveParent(model, link) \ {LookupFailed} :
          AddBodyAndRecurse(parent, RevoluteModel(urdf[link].axis))

\* case ::urdf::Joint::CONTINUOUS
ParseTreeContinuous ==
    /\ Dispatching(CONTINUOUS)
    /\ \E parent \in ResolveParent(model, link) \ {LookupFailed} :
          AddBodyAndRecurse(parent, RevoluteModel(urdf[link].axis))

\* case ::urdf::Joint::PRISMATIC, axis X, Y or Z
ParseTreePrismatic ==
    /\ Dispatching(PRISMATIC)
    /\ extractCartesianAxis(urdf[link].axis) # AXIS_UNALIGNED
    /\ \E parent \in ResolveParent(model, link) \ {LookupFailed} :
          AddBodyAndRecurse(parent, PrismaticModel(urdf[link].axis))

\* case ::urdf::Joint::PRISMATIC, AXIS_UNALIGNED
ParseTreePrismaticUnaligned ==
    /\ Dispatching(PRISMATIC)
    /\ extractCartesianAxis(urdf[link].axis) = AXIS_UNALIGNED
    /\ ResolveParent(model, link) # {LookupFailed}
    /\ AssertFalse

\* child_link->setParent(link->getParent()) for every child of l
SetParentOfChildren(l) ==
    [k \in Links |-> IF urdf[k].parent = l THEN parentLink[l] ELSE parentLink[k]]

\* the model after the FIXED case: the inertia merged, the fixed body recorded
FixedCase(m, l, parent, offset) ==
    addFixedBody(IF urdf[l].hasInertial
                 THEN mergeFixedBody(m, parent, jointPlacement(l, offset), LinkInertia(l))
                 ELSE m,
                 parent,
                 SE3Mul(offset, convertFromUrdfPose(OriginInput(l))),
                 LinkName(l))

\* nextPlacementOffset = placementOffset*ptjot_se3
FixedNextPlacementOffset(l, offset) == SE3Mul(offset, convertFromUrdfPose(OriginInput(l)))

\* case ::urdf::Joint::FIXED
ParseTreeFixed ==
    /\ Dispatching(FIXED)
    /\ \E parent \in ResolveParent(model, link) \ {LookupFailed} :
          model' = FixedCase(model, link, parent, placementOffset)
    /\ parentLink' = SetParentOfChildren(link)
    /\ todo' = Recurse(link, FixedNextPlacementOffset(link, placementOffset))
    /\ missed' = Missed(model, link)
    /\ UNCHANGED <<jacobianVars, urdf, validFile, rootJoint, pc, exception, result>>

\* default: the joint type is not supported
ParseTreeUnsupported ==
    /\ Dispatching(FLOATING)
    /\ ResolveParent(model, link) # {LookupFailed}
    /\ AssertFalse

Next ==
    \/ BuildModelInvalidFile
    \/ BuildModelFixedRoot
    \/ BuildModelRootJoint
    \/ BuildModelReturn
    \/ ParseTreeRootLink
    \/ ParseTreeMissingJoint
    \/ ParseTreeMissingInertia
    \/ ParseTreeLookupAbort
    \/ ParseTreeRevolute
    \/ ParseTreeContinuous
    \/ ParseTreePrismatic
    \/ ParseTreePrismaticUnaligned
    \/ ParseTreeFixed
    \/ ParseTreeUnsupported

Spec == Init /\ [][Next]_vars

\* the same compiler on the plain documents
SpecPlain == InitPlain /\ [][Next]_vars

\* ------------------------------------------------------------------------
\* The Jacobian functions exposed to Python (expose-jacobian.cpp)

\* jacobian_proxy that runs computeJointJacobians whatever update_kinematics is
jacobian_proxyAlwaysUpdating(m, d, q, jointId, rf, update_kinematics) ==
    LET d1 == computeJointJacobians(m, d, q)
    IN  [data |-> d1, J |-> getJointJacobian(m, d1, jointId, rf, ZeroMatrix6x(m))]

\* jacobian_proxy: the Data it leaves and the matrix it returns
jacobian_proxy(m, d, q, jointId, rf, update_kinematics) ==
    LET d1 == IF update_kinematics THEN computeJointJacobians(m, d, q) ELSE d
    IN  [data |-> d1, J |-> getJointJacobian(m, d1, jointId, rf, ZeroMatrix6x(m))]

\* get_jacobian_proxy: the matrix it returns (data is only read)
get_jacobian_proxy(m, d, jointId, rf) == getJointJacobian(m, d, jointId, rf, ZeroMatrix6x(m))

\* the inertia of link l, which has an inertial block
InertiaOf(l) == convertFromUrdfInertial(InertialInput(l))

\* the Model buildModel(file) returns for the chain
\* base -revolute x- link2 -prismatic x- link3 -revolute z- link4
ChainModel ==
    LET m1 == addBody(EmptyModel, 0, RevoluteModel(Vec3(1, 0, 0)),
                      jointPlacement(2, SE3Identity), InertiaOf(2), JointNames[2], LinkNames[2])
        m2 == addBody(m1, 1, PrismaticModel(Vec3(1, 0, 0)),
                      jointPlacement(3, SE3Identity), InertiaOf(3), JointNames[3], LinkNames[3])
    IN  addBody(m2, 2, RevoluteModel(Vec3(0, 0, 1)),
                jointPlacement(4, SE3Identity), InertiaOf(4), JointNames[4], LinkNames[4])

\* the Model buildModel(file) returns for the tree where link3 and link4
\* both hang from link2
TreeModel ==
    LET m1 == addBody(EmptyModel, 0, RevoluteModel(Vec3(0, 0, 1)),
                      jointPlacement(2, SE3Identity), InertiaOf(2), JointNames[2], LinkNames[2])
        m2 == addBody(m1, 1, RevoluteModel(Vec3(1, 0, 0)),
                      jointPlacement(3, SE3Identity), InertiaOf(3), JointNames[3], LinkNames[3])
    IN  addBody(m2, 1, PrismaticModel(Vec3(1, 0, 0)),
                jointPlacement(4, SE3Identity), InertiaOf(4), JointNames[4], LinkNames[4])

JacobianModels == {ChainModel, TreeModel}

\* the configurations offered to a joint: at rest, or moved by one half turn
\* (revolute) or one unit (prismatic)
JointConfigurations == {0, 1}

\* Joint configuration q (size Model::nq)
Configurations(m) == [1..nv(m) -> JointConfigurations]

\* the compiler is not running; a built Model and two fresh Data made from it
InitJacobian ==
    /\ validFile = FALSE
    /\ urdf = NoDocument
    /\ rootJoint = FALSE
    /\ parentLink = [l \in Links |-> urdf[l].parent]
    /\ model = EmptyModel
    /\ todo = << >>
    /\ pc = "start"
    /\ exception = NoException
    /\ result = NoResult
    /\ missed = {}
    /\ \E m \in JacobianModels : JacobianIdle(m)

\* jointJacobian(model, data, q, jointId, rf, update_kinematics)
JointJacobian ==
    /\ jpc = "idle"
    /\ \E q \in Configurations(builtModel), jointId \in 1..nv(builtModel),
          rf \in ReferenceFrames, update_kinematics \in BOOLEAN :
          LET r == jacobian_proxy(builtModel, data, q, jointId, rf, update_kinematics)
          IN  /\ call' = [q |-> q, jointId |-> jointId, rf |-> rf,
                          update_kinematics |-> update_kinematics]
              /\ data' = r.data
              /\ J' = r.J
              /\ jpc' = IF update_kinematics THEN "compute" ELSE "get"
    /\ UNCHANGED <<compilerVars, builtModel, dataSeq, Jseq>>

\* computeJointJacobians(model, data, q) with the q of the last jointJacobian
ComputeJointJacobians ==
    /\ jpc = "compute"
    /\ dataSeq' = computeJointJacobians(builtModel, dataSeq, call.q)
    /\ jpc' = "get"
    /\ UNCHANGED <<compilerVars, builtModel, data, call, J, Jseq>>

\* getJointJacobian(model, data, jointId, rf) with the arguments of the last jointJacobian
GetJointJacobian ==
    /\ jpc = "get"
    /\ Jseq' = get_jacobian_proxy(builtModel, dataSeq, call.jointId, call.rf)
    /\ jpc' = "idle"
    /\ UNCHANGED <<compilerVars, builtModel, data, dataSeq, call, J>>

NextJacobian ==
    \/ JointJacobian
    \/ ComputeJointJacobians
    \/ GetJointJacobian

\* a caller that makes every call of jointJacobian again as the two-call
\* sequence, on a second Data with the same history
SpecJacobian == InitJacobian /\ [][NextJacobian]_vars

\* ------------------------------------------------------------------------
\* The document as written, before any setParent

\* the link a body or fixed body of the given name was made for
LinkNamed(name) == {l \in Links : LinkName(l) = name}

\* link l is attached by a FIXED joint
IsFixedLink(l) == urdf[l].hasJoint /\ urdf[l].jtype = FIXED

\* the joints the switch of parseTree has a case for and accepts
IsSupportedJoint(l) ==
    \/ urdf[l].jtype \in {REVOLUTE, CONTINUOUS, FIXED}
    \/ urdf[l].jtype = PRISMATIC /\ extractCartesianAxis(urdf[l].axis) # AXIS_UNALIGNED

\* the nearest ancestor link of l that no FIXED joint attaches: the link that
\* carries the nearest non-fixed ancestor joint of l, or the root link
RECURSIVE Anchor(_)
Anchor(l) ==
    IF urdf[l].parent = RootLink \/ ~IsFixedLink(urdf[l].parent)
    THEN urdf[l].parent
    ELSE Anchor(urdf[l].parent)

\* the model indices the parent of link l must be: the root index, or the
\* index of the body of the anchor
ExpectedParents(m, l) ==
    IF Anchor(l) = RootLink
    THEN {IF rootJoint THEN 1 ELSE 0}
    ELSE {i \in JointIndices(m) : m.bodyNames[i + 1] = LinkName(Anchor(l))}

\* l and the links below it
RECURSIVE IsBelow(_, _)
IsBelow(k, l) == k = l \/ (k # RootLink /\ urdf[k].parent # NoLink /\ IsBelow(urdf[k].parent, l))

\* the names of the bodies and fixed bodies of m
BuiltNames(m) ==
    {m.bodyNames[i] : i \in 1..Len(m.bodyNames)} \cup {m.fixedBodies[i].name : i \in 1..Len(m.fixedBodies)}

RECURSIVE SumMass(_)
SumMass(Ys) == IF Ys = << >> THEN 0 ELSE Head(Ys).mass + SumMass(Tail(Ys))

\* the sum of the masses of the inertial blocks of the links 1..n
RECURSIVE UrdfMass(_)
UrdfMass(n) ==
    IF n = 0 THEN 0
    ELSE (IF urdf[n].hasInertial THEN InertialInput(n).mass ELSE 0) + UrdfMass(n - 1)

\* every joint of the document is one parseTree has a case for and accepts
AllJointsSupported == \A l \in Links \ {RootLink} : urdf[l].hasJoint => IsSupportedJoint(l)

\* the composition of the origins of the joints from the root link down to l
RECURSIVE UrdfChain(_)
UrdfChain(l) ==
    IF l = RootLink THEN SE3Identity
    ELSE SE3Mul(UrdfChain(urdf[l].parent), convertFromUrdfPose(OriginInput(l)))

\* the composition of the origins of the FIXED joints from the anchor of l
\* down to l, l included
RECURSIVE CollapsedChain(_)
CollapsedChain(l) ==
    IF urdf[l].parent = RootLink \/ ~IsFixedLink(urdf[l].parent)
    THEN convertFromUrdfPose(OriginInput(l))
    ELSE SE3Mul(CollapsedChain(urdf[l].parent), convertFromUrdfPose(OriginInput(l)))

\* the placementOffset a call on link l must receive
ExpectedOffset(l) ==
    IF l = RootLink \/ urdf[l].parent = RootLink \/ ~IsFixedLink(urdf[l].parent)
    THEN SE3Identity
    ELSE CollapsedChain(urdf[l].parent)

\* the composition of jointPlacements along parents[] from the universe to i
RECURSIVE PathPlacement(_, _, _)
PathPlacement(m, i, fuel) ==
    IF i = 0 \/ fuel = 0 THEN SE3Identity
    ELSE SE3Mul(PathPlacement(m, m.parents[i + 1], fuel - 1), m.jointPlacements[i + 1])

\* ------------------------------------------------------------------------
\* Claims

C2_MassConserved ==
    (pc = "returned" /\ AllJointsSupported) => SumMass(result.model.inertias) = UrdfMass(NLinks)

\* C3: the parent index used for every link is the index of its nearest
\* non-fixed ancestor joint (the root index when there is none), and
\* getJointId is never asked for a name the model does not hold.
\* Stated for the documents all of whose joints are supported.
C3_NearestNonFixedParent ==
    (validFile /\ AllJointsSupported) =>
        /\ \A i \in 1..(njoint(model) - 1) : \A l \in LinkNamed(model.bodyNames[i + 1]) :
              l # RootLink => model.parents[i + 1] \in ExpectedParents(model, l)
        /\ \A n \in 1..Len(model.fixedBodies) : \A l \in LinkNamed(model.fixedBodies[n].name) :
              model.fixedBodies[n].parent \in ExpectedParents(model, l)
        /\ missed = {}

\* C4: fixed joints are collapsed: a returned Model has one joint per
\* non-fixed joint of the document (plus the root joint, when given), no body
\* made for a link that a FIXED joint attaches, and one fixed body per such link.
C4_FixedJointsCollapsed ==
    pc = "returned" =>
        /\ njoint(result.model) - 1 =
              Cardinality({l \in Links : urdf[l].hasJoint /\ urdf[l].jtype # FIXED})
              + (IF rootJoint THEN 1 ELSE 0)
        /\ \A l \in Links : IsFixedLink(l) =>
              /\ \A i \in 1..Len(result.model.bodyNames) : result.model.bodyNames[i] # LinkName(l)
              /\ Cardinality({n \in 1..Len(result.model.fixedBodies) :
                                 result.model.fixedBodies[n].name = LinkName(l)}) = 1
        /\ Len(result.model.fixedBodies) = Cardinality({l \in Links : IsFixedLink(l)})

\* C5: without root joint, when a FIXED joint attaches a link with an inertial
\* block directly to the root link, the returned Model has inertias[0] as the
\* constructor left it and the total mass of the document.
\* Stated for the documents all of whose joints are supported.
C5_UniverseInertiaUntouched ==
    ( /\ pc = "returned"
      /\ ~rootJoint
      /\ AllJointsSupported
      /\ \E l \in Links : IsFixedLink(l) /\ urdf[l].parent = RootLink /\ urdf[l].hasInertial )
    => /\ result.model.inertias[1] = InertiaZero
       /\ SumMass(result.model.inertias) = UrdfMass(NLinks)

\* C6: the placement of every body made for a link is the composition of the
\* origins of the collapsed FIXED joints above it followed by its own origin;
\* every pending call carries identity below a non-fixed joint and the
\* accumulated origins below FIXED joints; and the placements composed along
\* parents[] to a body equal the origins composed along the document's chain
\* to its link.
C6_PlacementsCompose ==
    validFile =>
        /\ \A i \in 1..(njoint(model) - 1) : \A l \in LinkNamed(model.bodyNames[i + 1]) :
              l # RootLink =>
                 /\ model.jointPlacements[i + 1] = CollapsedChain(l)
                 /\ PathPlacement(model, i, NLinks + 1) = UrdfChain(l)
        /\ \A n \in 1..Len(todo) : todo[n].placementOffset = ExpectedOffset(todo[n].link)

\* C7: a call of parseTree on a link without inertial block that a non-fixed
\* joint of any type attaches throws MissingInertia with a message naming the
\* link, and the model then holds nothing made for the link or a link below it.
C7_MissingInertiaFails ==
    [][ ( /\ Calling
          /\ urdf[link].hasJoint
          /\ ~urdf[link].hasInertial
          /\ urdf[link].jtype # FIXED )
        => ( /\ pc' = "thrown"
             /\ exception'.kind = "MissingInertia"
             /\ exception'.link = link
             /\ exception'.message = <<LinkName(link), " - spatial inertia information missing.">>
             /\ model' = model
             /\ \A k \in Links : IsBelow(k, link) => LinkName(k) \notin BuiltNames(model') ) ]_vars

\* C7 witness: the exception was thrown for a link that a CONTINUOUS joint
\* attaches, after bodies had been added.
C7_Witness ==
    /\ pc = "thrown"
    /\ exception.kind = "MissingInertia"
    /\ urdf[exception.link].jtype = CONTINUOUS
    /\ njoint(model) > 2
    /\ Len(model.fixedBodies) > 0

\* C8: a call of parseTree on a link (with inertial block) whose joint has a
\* type outside {revolute, continuous, prismatic, fixed}, or is prismatic with
\* an axis other than X, Y, Z, is fatal: it throws UnsupportedJointType (or
\* stops the process), adds nothing and parses no child of the link.
C8_UnsupportedJointFails ==
    [][ ( /\ Calling
          /\ urdf[link].hasJoint
          /\ urdf[link].hasInertial
          /\ ~IsSupportedJoint(link) )
        => ( /\ \/ pc' = "thrown" /\ exception'.kind = "UnsupportedJointType"
                \/ pc' = "aborted"
             /\ todo' = todo
             /\ model' = model ) ]_vars

C10_JointNamesUnique ==
    (pc = "returned" /\ AllJointsSupported) =>
        \A i, j \in 1..Len(result.model.names) :
            i # j => result.model.names[i] # result.model.names[j]

\* C11: a call of parseTree on a link that has a parent link in the document
\* but no parent joint throws MissingJoint with a message naming the link,
\* adds nothing to the model and parses no child of the link, so that neither
\* the link nor a link below it is in the model.
C11_MissingJointFails ==
    [][ ( /\ Calling
          /\ urdf[link].parent # NoLink
          /\ ~urdf[link].hasJoint )
        => ( /\ pc' = "thrown"
             /\ exception'.kind = "MissingJoint"
             /\ exception'.link = link
             /\ exception'.message = <<LinkName(link), " - joint information missing.">>
             /\ result' = NoResult
             /\ model' = model
             /\ todo' = todo
             /\ \A k \in Links : IsBelow(k, link) => LinkName(k) \notin BuiltNames(model') ) ]_vars

\* C11 witness: the joint was found missing on a link whose parent link was
\* replaced by setParent (the link hangs below a FIXED joint), after a body
\* had been added.
C11_Witness ==
    /\ pc = "thrown"
    /\ exception.kind = "MissingJoint"
    /\ parentLink[exception.link] # urdf[exception.link].parent
    /\ urdf[urdf[exception.link].parent].hasJoint
    /\ urdf[urdf[exception.link].parent].jtype = FIXED
    /\ njoint(model) > 1

\* C13: parent resolution at the root, in a returned Model.  With a root
\* joint the Model holds exactly one joint named root_joint: the first one
\* after the universe, with parent 0; and the body or fixed body of every
\* link whose nearest ancestor link not attached by a FIXED joint is the root
\* link has that joint (index 1) as parent.  Without a root joint every such
\* link has parent 0.  Both whatever the names of the joints of the document.
\* Stated for the documents all of whose joints are supported.
C13_RootLevelParents ==
    (pc = "returned" /\ AllJointsSupported) =>
        LET m == result.model
            rootIndex == IF rootJoint THEN 1 ELSE 0
        IN  /\ rootJoint =>
                  /\ {i \in JointIndices(m) : m.names[i + 1] = RootJointName} = {1}
                  /\ m.parents[2] = 0
            /\ \A i \in 1..(njoint(m) - 1) : \A l \in LinkNamed(m.bodyNames[i + 1]) :
                  (l # RootLink /\ Anchor(l) = RootLink) => m.parents[i + 1] = rootIndex
            /\ \A n \in 1..Len(m.fixedBodies) : \A l \in LinkNamed(m.fixedBodies[n].name) :
                  Anchor(l) = RootLink => m.fixedBodies[n].parent = rootIndex

\* C12: whenever a call of jointJacobian has been made again as the two-call
\* sequence on a Data with the same history - computeJointJacobians(q) then
\* getJointJacobian when update_kinematics was true, getJointJacobian alone
\* when it was false - the two matrices returned are equal and the two Data
\* are in the same state (so that without update_kinematics no compute pass
\* was made); with update_kinematics the Data is the one computed at q.
C12_JointJacobianIsComputeThenGet ==
    (jpc = "idle" /\ call # NoCall) =>
        /\ J = Jseq
        /\ data = dataSeq
        /\ call.update_kinematics =>
              data = computeJointJacobians(builtModel, NewData(builtModel), call.q)

\* C12 witness: jointJacobian was called without update in the LOCAL frame on
\* a Data computed at another configuration, returned a matrix that is not
\* the one of its own q, and the two-call sequence has been made.
C12_Witness ==
    /\ jpc = "idle"
    /\ call # NoCall
    /\ ~call.update_kinematics
    /\ call.rf = FrameLOCAL
    /\ data # NewData(builtModel)
    /\ data # computeJointJacobians(builtModel, data, call.q)
    /\ J # ZeroMatrix6x(builtModel)
    /\ J # jacobian_proxy(builtModel, data, call.q, call.jointId, call.rf, TRUE).J

====
